---- MODULE Spec2Model ----
(***************************************************************************)
(* Model of the hash encoding layer (src/libutil/hash.cc) and of the       *)
(* ValidPathInfo operations (src/libstore/path-info.cc).                   *)
(*                                                                         *)
(* Strings are sequences of one-character strings; a byte is a number in   *)
(* 0..255; a C array is a function on 0..size-1.                           *)
(***************************************************************************)
EXTENDS Integers, Sequences, FiniteSets

VARIABLES
    hash,       \* SpecHash: the Hash value the operations are applied to
    rest,       \* SpecHash: an unprefixed textual body handed to the parser
    str,        \* SpecHash: result of the last to_string, or None
    parsed,     \* SpecHash: result of the last parse, or None
    compressed, \* SpecHash: result of the last compressHash, or None
    sink,       \* SpecSink: the HashSink object
    written,    \* SpecSink: every byte handed to the sink so far, in order
    probe,      \* SpecSink: result of the last currentHash, or None
    finished,   \* SpecSink: result of finish, or None
    store,      \* Spec: the store collaborator the operations are given
    info,       \* Spec: the ValidPathInfo object
    built,      \* Spec: (name, ca) the object was constructed from, or None
    ret         \* Spec: operation and result of the last call on info

vars == <<hash, rest, str, parsed, compressed, sink, written, probe, finished,
          store, info, built, ret>>

hashVars == <<hash, rest, str, parsed, compressed>>
sinkVars == <<sink, written, probe, finished>>
infoVars == <<store, info, built, ret>>

None == [none |-> TRUE]

(***************************************************************************)
(* Bounds of the model.                                                    *)
(***************************************************************************)
MaxSeed == 3
MaxWrite == 2
MaxWritten == 4
BufSize == 3
MaxPathHash == 1

(***************************************************************************)
(* Machine arithmetic on non-negative integers.                            *)
(***************************************************************************)
Shl(x, n) == x * (2 ^ n)
Shr(x, n) == x \div (2 ^ n)
ToUChar(x) == x % 256

\* The bitwise operators, four bits at a time.
Bit(x, k) == (x \div (2 ^ k)) % 2
NibbleOr ==
    [x \in 0 .. 15, y \in 0 .. 15 |->
        (IF Bit(x, 0) + Bit(y, 0) > 0 THEN 1 ELSE 0)
        + (IF Bit(x, 1) + Bit(y, 1) > 0 THEN 2 ELSE 0)
        + (IF Bit(x, 2) + Bit(y, 2) > 0 THEN 4 ELSE 0)
        + (IF Bit(x, 3) + Bit(y, 3) > 0 THEN 8 ELSE 0)]
NibbleXor ==
    [x \in 0 .. 15, y \in 0 .. 15 |->
        (IF Bit(x, 0) # Bit(y, 0) THEN 1 ELSE 0)
        + (IF Bit(x, 1) # Bit(y, 1) THEN 2 ELSE 0)
        + (IF Bit(x, 2) # Bit(y, 2) THEN 4 ELSE 0)
        + (IF Bit(x, 3) # Bit(y, 3) THEN 8 ELSE 0)]
NibbleAnd ==
    [x \in 0 .. 15, y \in 0 .. 15 |->
        (IF Bit(x, 0) + Bit(y, 0) = 2 THEN 1 ELSE 0)
        + (IF Bit(x, 1) + Bit(y, 1) = 2 THEN 2 ELSE 0)
        + (IF Bit(x, 2) + Bit(y, 2) = 2 THEN 4 ELSE 0)
        + (IF Bit(x, 3) + Bit(y, 3) = 2 THEN 8 ELSE 0)]

RECURSIVE BitOr(_, _)
BitOr(a, b) ==
    IF a = 0 THEN b
    ELSE IF b = 0 THEN a
    ELSE NibbleOr[a % 16, b % 16] + 16 * BitOr(a \div 16, b \div 16)

RECURSIVE BitXor(_, _)
BitXor(a, b) ==
    IF a = 0 THEN b
    ELSE IF b = 0 THEN a
    ELSE NibbleXor[a % 16, b % 16] + 16 * BitXor(a \div 16, b \div 16)

RECURSIVE BitAnd(_, _)
BitAnd(a, b) ==
    IF a = 0 \/ b = 0 THEN 0
    ELSE NibbleAnd[a % 16, b % 16] + 16 * BitAnd(a \div 16, b \div 16)

\* Position of c in the sequence s, counted from 0; Len(s) when absent.
Find(s, c) ==
    LET at == {k \in 1 .. Len(s) : s[k] = c}
    IN  IF at = {} THEN Len(s)
        ELSE (CHOOSE k \in at : \A m \in at : k <= m) - 1

\* The bitwise OR of a finite set of numbers.
RECURSIVE OrAll(_)
OrAll(S) ==
    IF S = {} THEN 0
    ELSE LET x == CHOOSE y \in S : TRUE IN BitOr(x, OrAll(S \ {x}))

(***************************************************************************)
(* Hash types and the Hash value.                                          *)
(***************************************************************************)
htMD5 == "md5"
htSHA1 == "sha1"
htSHA256 == "sha256"
htSHA512 == "sha512"
HashTypes == {htMD5, htSHA1, htSHA256, htSHA512}
HashFormats == {"Base16", "Base32", "Base64", "SRI"}

maxHashSize == 64

regularHashSize(type) ==
    CASE type = htMD5 -> 16
      [] type = htSHA1 -> 20
      [] type = htSHA256 -> 32
      [] type = htSHA512 -> 64

\* Hash::Hash(HashType): natural size, buffer zeroed.
Hash(type) ==
    [type |-> type,
     hashSize |-> regularHashSize(type),
     hash |-> [i \in 0 .. maxHashSize - 1 |-> 0]]

\* Hash::operator==: size and the first hashSize bytes; the type is not compared.
HashEq(h1, h2) ==
    /\ h1.hashSize = h2.hashSize
    /\ \A i \in 0 .. h1.hashSize - 1 : h1.hash[i] = h2.hash[i]

base16Len(h) == h.hashSize * 2
base32Len(h) == (h.hashSize * 8 - 1) \div 5 + 1
base64Len(h) == 4 * ((h.hashSize + 2) \div 3)

base16Chars == <<"0","1","2","3","4","5","6","7","8","9","a","b","c","d","e","f">>

base32Chars == <<"0","1","2","3","4","5","6","7","8","9","a","b","c","d","f","g",
                 "h","i","j","k","l","m","n","p","q","r","s","v","w","x","y","z">>

base64Chars == <<"A","B","C","D","E","F","G","H","I","J","K","L","M","N","O","P",
                 "Q","R","S","T","U","V","W","X","Y","Z","a","b","c","d","e","f",
                 "g","h","i","j","k","l","m","n","o","p","q","r","s","t","u","v",
                 "w","x","y","z","0","1","2","3","4","5","6","7","8","9","+","/">>

printHashType(ht) ==
    CASE ht = htMD5 -> <<"m","d","5">>
      [] ht = htSHA1 -> <<"s","h","a","1">>
      [] ht = htSHA256 -> <<"s","h","a","2","5","6">>
      [] ht = htSHA512 -> <<"s","h","a","5","1","2">>

parseHashTypeOpt(s) ==
    IF s = <<"m","d","5">> THEN [some |-> TRUE, type |-> htMD5]
    ELSE IF s = <<"s","h","a","1">> THEN [some |-> TRUE, type |-> htSHA1]
    ELSE IF s = <<"s","h","a","2","5","6">> THEN [some |-> TRUE, type |-> htSHA256]
    ELSE IF s = <<"s","h","a","5","1","2">> THEN [some |-> TRUE, type |-> htSHA512]
    ELSE [some |-> FALSE]

(***************************************************************************)
(* Rendering.                                                              *)
(***************************************************************************)
printHash16(h) ==
    [k \in 1 .. h.hashSize * 2 |->
        LET i == (k - 1) \div 2
        IN  IF (k - 1) % 2 = 0
            THEN base16Chars[Shr(h.hash[i], 4) + 1]
            ELSE base16Chars[BitAnd(h.hash[i], 15) + 1]]

\* printHash32 without the bits the next byte contributes to a character.
printHash32_NoNextByte(h) ==
    LET len == base32Len(h)
    IN  [p \in 1 .. len |->
            LET n == len - p
                b == n * 5
                i == b \div 8
                j == b % 8
            IN  base32Chars[BitAnd(Shr(h.hash[i], j), 31) + 1]]

\* The loop runs n = len-1 down to 0 and appends, so position p holds n = len-p.
printHash32(h) ==
    LET len == base32Len(h)
    IN  [p \in 1 .. len |->
            LET n == len - p
                b == n * 5
                i == b \div 8
                j == b % 8
                c == ToUChar(BitOr(Shr(h.hash[i], j),
                                   IF i >= h.hashSize - 1 THEN 0
                                   ELSE Shl(h.hash[i + 1], 8 - j)))
            IN  base32Chars[BitAnd(c, 31) + 1]]

\* base64Encode of the first n bytes of the array a (RFC 4648, padded): character
\* q carries bits 6q .. 6q+5 of the byte string, missing bits being zero.
base64Encode(a, n) ==
    LET chars == (8 * n + 5) \div 6
        total == 4 * ((n + 2) \div 3)
    IN  [k \in 1 .. total |->
            IF k > chars THEN "="
            ELSE LET p == 6 * (k - 1)
                     i == p \div 8
                     window == BitOr(Shl(a[i], 8), IF i + 1 < n THEN a[i + 1] ELSE 0)
                 IN  base64Chars[BitAnd(Shr(window, 10 - (p % 8)), 63) + 1]]

to_string(h, hashFormat, includeType) ==
    LET prefix == IF hashFormat = "SRI" \/ includeType
                  THEN printHashType(h.type)
                          \o (IF hashFormat = "SRI" THEN <<"-">> ELSE <<":">>)
                  ELSE <<>>
        body == CASE hashFormat = "Base16" -> printHash16(h)
                  [] hashFormat = "Base32" -> printHash32(h)
                  [] hashFormat \in {"Base64", "SRI"} -> base64Encode(h.hash, h.hashSize)
    IN  prefix \o body

(***************************************************************************)
(* Parsing.  A parse returns [ok |-> TRUE, hash |-> h] or, where the code  *)
(* throws, [ok |-> FALSE, error |-> exception class, what |-> message].    *)
(***************************************************************************)
Thrown(cls, msg) == [ok |-> FALSE, error |-> cls, what |-> msg]

\* splitPrefixTo: cut the string at the first separator, if there is one.
splitPrefixTo(string, separator) ==
    LET sepInstance == Find(string, separator)
    IN  IF sepInstance # Len(string)
        THEN [some |-> TRUE,
              prefix |-> SubSeq(string, 1, sepInstance),
              rest |-> SubSeq(string, sepInstance + 2, Len(string))]
        ELSE [some |-> FALSE, rest |-> string]

\* base64Decode: stops at the first '=', fails on a character outside the alphabet.
\* Byte k is bits 8k .. 8k+7 of the concatenated 6-bit digits; trailing bits
\* that do not fill a byte are dropped.
base64Decode(s) ==
    LET m == Find(s, "=")
        digit(q) == Find(base64Chars, s[q + 1])
    IN  IF \E q \in 0 .. m - 1 : digit(q) = Len(base64Chars)
        THEN Thrown("Error", "invalid character in Base64 string")
        ELSE [ok |-> TRUE,
              bytes |-> [k \in 1 .. (6 * m) \div 8 |->
                            LET p == 8 * (k - 1)
                                q == p \div 6
                                window == BitOr(Shl(digit(q), 12),
                                            BitOr(Shl(digit(q + 1), 6),
                                                  IF q + 2 < m THEN digit(q + 2) ELSE 0))
                            IN  BitAnd(Shr(window, 10 - (p % 6)), 255)]]

\* The lambda parseHexDigit: 0..15, or 16 where it throws.
parseHexDigit(c) ==
    LET dec == Find(<<"0","1","2","3","4","5","6","7","8","9">>, c)
        upper == Find(<<"A","B","C","D","E","F">>, c)
        lower == Find(<<"a","b","c","d","e","f">>, c)
    IN  IF dec < 10 THEN dec
        ELSE IF upper < 6 THEN upper + 10
        ELSE IF lower < 6 THEN lower + 10
        ELSE 16

parseBase16(s, h) ==
    IF \E k \in 1 .. Len(s) : parseHexDigit(s[k]) = 16
    THEN Thrown("BadHash", "invalid base-16 hash")
    ELSE [ok |-> TRUE,
          hash |-> [h EXCEPT !.hash =
                      [i \in 0 .. maxHashSize - 1 |->
                          IF i < h.hashSize
                          THEN BitOr(Shl(parseHexDigit(s[i * 2 + 1]), 4),
                                     parseHexDigit(s[i * 2 + 2]))
                          ELSE @[i]]]]

\* parseBase32 without the check of the bits beyond the last byte.
parseBase32_NoHighBitCheck(s, h) ==
    LET N == 0 .. Len(s) - 1
        digit(n) == Find(base32Chars, s[Len(s) - n])
        i(n) == (n * 5) \div 8
        j(n) == (n * 5) % 8
    IN  IF \E n \in N : digit(n) >= 32
        THEN Thrown("BadHash", "invalid base-32 hash")
        ELSE [ok |-> TRUE,
              hash |-> [h EXCEPT !.hash =
                  [k \in 0 .. maxHashSize - 1 |->
                      BitOr(@[k],
                          BitOr(OrAll({ToUChar(Shl(digit(n), j(n))) :
                                          n \in {x \in N : i(x) = k}}),
                                OrAll({ToUChar(Shr(digit(n), 8 - j(n))) :
                                          n \in {x \in N : i(x) + 1 = k
                                                           /\ i(x) < h.hashSize - 1}})))]]]

\* The base-32 loop of the constructor.  Iteration n reads the character
\* s[size - n - 1], ORs digit << j into byte i = 5n / 8 and digit >> (8 - j)
\* into byte i + 1 when i < hashSize - 1; otherwise it throws if digit >> (8 - j)
\* is not zero.  The bytes start at zero, so byte k ends as the OR of what the
\* iterations put into it.
parseBase32(s, h) ==
    LET N == 0 .. Len(s) - 1
        digit(n) == Find(base32Chars, s[Len(s) - n])
        i(n) == (n * 5) \div 8
        j(n) == (n * 5) % 8
        throws(n) ==
            \/ digit(n) >= 32
            \/ /\ ~(i(n) < h.hashSize - 1)
               /\ Shr(digit(n), 8 - j(n)) # 0
    IN  IF \E n \in N : throws(n)
        THEN Thrown("BadHash", "invalid base-32 hash")
        ELSE [ok |-> TRUE,
              hash |-> [h EXCEPT !.hash =
                  [k \in 0 .. maxHashSize - 1 |->
                      BitOr(@[k],
                          BitOr(OrAll({ToUChar(Shl(digit(n), j(n))) :
                                          n \in {x \in N : i(x) = k}}),
                                OrAll({ToUChar(Shr(digit(n), 8 - j(n))) :
                                          n \in {x \in N : i(x) + 1 = k
                                                           /\ i(x) < h.hashSize - 1}})))]]]

parseBase64(s, h, isSRI) ==
    LET d == base64Decode(s)
    IN  IF ~d.ok THEN d
        ELSE IF Len(d.bytes) # h.hashSize
        THEN Thrown("BadHash", IF isSRI THEN "invalid SRI hash" ELSE "invalid base-64 hash")
        ELSE [ok |-> TRUE,
              hash |-> [h EXCEPT !.hash =
                          [i \in 0 .. maxHashSize - 1 |->
                              IF i < h.hashSize THEN d.bytes[i + 1] ELSE @[i]]]]

\* Hash::Hash(std::string_view rest, HashType type, bool isSRI)
HashFromString(s, type, isSRI) ==
    LET h == Hash(type)
    IN  IF ~isSRI /\ Len(s) = base16Len(h) THEN parseBase16(s, h)
        ELSE IF ~isSRI /\ Len(s) = base32Len(h) THEN parseBase32(s, h)
        ELSE IF isSRI \/ Len(s) = base64Len(h) THEN parseBase64(s, h, isSRI)
        ELSE Thrown("BadHash", "hash has wrong length for hash type")

\* parseHashType throws UsageError on an unknown name.
getParsedTypeAndSRI(original) ==
    LET colon == splitPrefixTo(original, ":")
        dash == IF colon.some THEN colon ELSE splitPrefixTo(original, "-")
        isSRI == ~colon.some /\ dash.some
    IN  IF ~dash.some
        THEN [ok |-> TRUE, optParsedType |-> [some |-> FALSE], isSRI |-> FALSE,
              rest |-> original]
        ELSE IF ~parseHashTypeOpt(dash.prefix).some
        THEN Thrown("UsageError", "unknown hash algorithm")
        ELSE [ok |-> TRUE, optParsedType |-> parseHashTypeOpt(dash.prefix),
              isSRI |-> isSRI, rest |-> dash.rest]

parseAny(original, optType) ==
    LET p == getParsedTypeAndSRI(original)
    IN  IF ~p.ok THEN p
        ELSE IF ~p.optParsedType.some /\ ~optType.some
        THEN Thrown("BadHash", "hash does not include a type")
        ELSE IF p.optParsedType.some /\ optType.some
                    /\ p.optParsedType.type # optType.type
        THEN Thrown("BadHash", "hash should have type")
        ELSE HashFromString(p.rest,
                            IF p.optParsedType.some THEN p.optParsedType.type
                            ELSE optType.type,
                            p.isSRI)

parseNonSRIUnprefixed(s, type) == HashFromString(s, type, FALSE)

(***************************************************************************)
(* Compression.                                                            *)
(***************************************************************************)
\* The loop of compressHash from source index i on; h is the destination.
RECURSIVE compressLoop(_, _, _, _)
compressLoop(src, newSize, h, i) ==
    IF i >= src.hashSize THEN h
    ELSE compressLoop(src, newSize,
             [h EXCEPT !.hash[i % newSize] = BitXor(@, src.hash[i])], i + 1)

\* compressHash folding with |= instead of ^=.
RECURSIVE compressLoop_Or(_, _, _, _)
compressLoop_Or(src, newSize, h, i) ==
    IF i >= src.hashSize THEN h
    ELSE compressLoop_Or(src, newSize,
             [h EXCEPT !.hash[i % newSize] = BitOr(@, src.hash[i])], i + 1)

compressHash_Or(src, newSize) ==
    compressLoop_Or(src, newSize, [Hash(src.type) EXCEPT !.hashSize = newSize], 0)

compressHash(src, newSize) ==
    compressLoop(src, newSize, [Hash(src.type) EXCEPT !.hashSize = newSize], 0)

(***************************************************************************)
(* SpecHash: the hash operations applied to bounded inputs.                *)
(***************************************************************************)
\* The byte string of a seed: seed 0 is all zero, the others mix high and low bits.
InputBytes(seed, n) ==
    [i \in 0 .. maxHashSize - 1 |->
        IF i < n THEN (seed * 85 + i * seed * 7) % 256 ELSE 0]

InputHash(type, seed) ==
    [Hash(type) EXCEPT !.hash = InputBytes(seed, regularHashSize(type))]

\* A body of base-32 length over the alphabet: any leading digit, then a pattern.
InputBody(type, seed, lead) ==
    [p \in 1 .. base32Len(Hash(type)) |->
        IF p = 1 THEN base32Chars[lead + 1]
        ELSE base32Chars[((seed * 11 + p * (2 * seed + 1)) % 32) + 1]]

InitHash ==
    /\ \E type \in HashTypes, seed \in 0 .. MaxSeed :
          /\ hash = InputHash(type, seed)
          /\ \/ rest = <<>>
             \/ \E lead \in 0 .. 31 : rest = InputBody(type, seed, lead)
    /\ str = None
    /\ parsed = None
    /\ compressed = None
    /\ sink = None /\ written = <<>> /\ probe = None /\ finished = None
    /\ store = None /\ info = None /\ built = None /\ ret = None

ToString(hashFormat, includeType) ==
    /\ rest = <<>>
    /\ str = None
    /\ compressed = None
    /\ str' = [format |-> hashFormat, includeType |-> includeType,
               s |-> to_string(hash, hashFormat, includeType)]
    /\ parsed' = None
    /\ UNCHANGED <<hash, rest, compressed, sinkVars, infoVars>>

ParseAny(optType) ==
    /\ str # None
    /\ parsed = None
    /\ parsed' = [optType |-> optType, result |-> parseAny(str.s, optType)]
    /\ UNCHANGED <<hash, rest, str, compressed, sinkVars, infoVars>>

ParseNonSRIUnprefixed ==
    /\ rest # <<>>
    /\ parsed = None
    /\ parsed' = [optType |-> [some |-> TRUE, type |-> hash.type],
                  result |-> parseNonSRIUnprefixed(rest, hash.type)]
    /\ UNCHANGED <<hash, rest, str, compressed, sinkVars, infoVars>>

CompressHash(newSize) ==
    /\ rest = <<>>
    /\ str = None
    /\ compressed = None
    /\ compressed' = [newSize |-> newSize, result |-> compressHash(hash, newSize)]
    /\ UNCHANGED <<hash, rest, str, parsed, sinkVars, infoVars>>

NextHash ==
    \/ \E f \in HashFormats, includeType \in BOOLEAN : ToString(f, includeType)
    \/ \E optType \in {[some |-> FALSE], [some |-> TRUE, type |-> hash.type]} :
          ParseAny(optType)
    \/ ParseNonSRIUnprefixed
    \/ \E newSize \in 1 .. hash.hashSize : CompressHash(newSize)

SpecHash == InitHash /\ [][NextHash]_vars

(***************************************************************************)
(* Properties of the hash operations.                                      *)
(***************************************************************************)
\* C1: a Hash of natural size rendered by to_string in any format with the type
\* included, then parsed by parseAny without an expected type, parses
\* successfully to a Hash of the same type, natural size and the same bytes.
RoundTripEncoding ==
    (/\ str # None
     /\ str.includeType
     /\ parsed # None
     /\ ~parsed.optType.some)
    => /\ parsed.result.ok
       /\ parsed.result.hash.type = hash.type
       /\ parsed.result.hash.hashSize = regularHashSize(hash.type)
       /\ \A i \in 0 .. maxHashSize - 1 : parsed.result.hash.hash[i] = hash.hash[i]
       /\ HashEq(parsed.result.hash, hash)

RoundTripEncodingWitness ==
    /\ str # None
    /\ str.format = "Base32"
    /\ str.includeType
    /\ hash.type = htSHA512
    /\ hash.hash[1] >= 128
    /\ parsed # None
    /\ ~parsed.optType.some
    /\ parsed.result.ok

\* The leading character's digit and the number of its high bits that lie
\* beyond the 8 * hashSize bits of the digest.
LeadDigit == Find(base32Chars, rest[1])
ExcessBits == 5 * Len(rest) - 8 * hash.hashSize

\* C7: an unprefixed body of base-32 length over the base-32 alphabet is
\* rejected with the invalid base-32 error, yielding no Hash, when its leading
\* character has a non-zero bit beyond the digest's bits, and is accepted when
\* those bits are all zero.
Base32HighBitCheck ==
    (rest # <<>> /\ parsed # None)
    => IF Shr(LeadDigit, 5 - ExcessBits) # 0
       THEN /\ ~parsed.result.ok
            /\ parsed.result = Thrown("BadHash", "invalid base-32 hash")
       ELSE /\ parsed.result.ok
            /\ parsed.result.hash.type = hash.type

Base32HighBitCheckWitness ==
    /\ rest # <<>>
    /\ hash.type = htSHA256
    /\ LeadDigit = 2
    /\ parsed # None
    /\ ~parsed.result.ok

\* Bit b of the XOR of the bytes a[i], i in S: the parity of the bytes that have it.
XorBit(a, S, b) == Cardinality({i \in S : Shr(a[i], b) % 2 = 1}) % 2
XorOfBytes(a, S) ==
    XorBit(a, S, 0) + 2 * XorBit(a, S, 1) + 4 * XorBit(a, S, 2) + 8 * XorBit(a, S, 3)
    + 16 * XorBit(a, S, 4) + 32 * XorBit(a, S, 5) + 64 * XorBit(a, S, 6)
    + 128 * XorBit(a, S, 7)

\* C8: compressHash of a natural-size Hash to newSize in 1 .. hashSize keeps the
\* type, has size newSize, byte k < newSize is the XOR of the source bytes at
\* the indices congruent to k modulo newSize, the bytes from newSize on are
\* zero, and compressing to the Hash's own size gives the Hash back.
HashCompression ==
    compressed # None
    => LET r == compressed.result
           newSize == compressed.newSize
       IN  /\ r.type = hash.type
           /\ r.hashSize = newSize
           /\ \A k \in 0 .. newSize - 1 :
                 r.hash[k] = XorOfBytes(hash.hash,
                                 {i \in 0 .. hash.hashSize - 1 : i % newSize = k})
           /\ \A k \in newSize .. maxHashSize - 1 : r.hash[k] = 0
           /\ newSize = hash.hashSize => (r = hash /\ HashEq(r, hash))

HashCompressionWitness ==
    /\ compressed # None
    /\ hash.type = htSHA256
    /\ compressed.newSize = 20
    /\ \E k \in 0 .. 19 : compressed.result.hash[k] # hash.hash[k]


(***************************************************************************)
(* Digest engine.  The digest primitives (MD5_*, SHA*_* of the crypto      *)
(* library) are abstracted: a context is the sequence of what it absorbed, *)
(* finalisation absorbs the padding into the context it is given and       *)
(* yields a digest that is a fixed function of what was absorbed before.   *)
(***************************************************************************)
PadMark == 256

RECURSIVE Mix(_, _)
Mix(absorbed, acc) ==
    IF absorbed = <<>> THEN acc
    ELSE Mix(Tail(absorbed), (acc * 31 + Head(absorbed) + 1) % 65521)

Digest(ht, absorbed) ==
    [i \in 0 .. maxHashSize - 1 |->
        IF i < regularHashSize(ht)
        THEN (Mix(absorbed, regularHashSize(ht)) * (i + 3) + i) % 256
        ELSE 0]

start(ht) == [absorbed |-> <<>>]

update(ht, ctx, data) == [ctx EXCEPT !.absorbed = @ \o data]

\* The context after finalisation, and the bytes written to the hash buffer.
finish(ht, ctx) ==
    [ctx |-> [ctx EXCEPT !.absorbed = Append(@, PadMark)],
     hash |-> Digest(ht, ctx.absorbed)]

hashString(ht, s) ==
    [Hash(ht) EXCEPT !.hash = finish(ht, update(ht, start(ht), s)).hash]

\* HashSink::HashSink(HashType); buffer is the filled part of BufferedSink's buffer.
HashSink(ht) == [ht |-> ht, ctx |-> start(ht), bytes |-> 0, buffer |-> <<>>]

writeUnbuffered(s, data) ==
    [s EXCEPT !.bytes = @ + Len(data), !.ctx = update(s.ht, @, data)]

\* BufferedSink::flush
flush(s) ==
    IF s.buffer = <<>> THEN s
    ELSE writeUnbuffered([s EXCEPT !.buffer = <<>>], s.buffer)

\* BufferedSink::operator(): data that would fill the buffer bypasses it.
write(s, data) ==
    IF data = <<>> THEN s
    ELSE IF Len(s.buffer) + Len(data) >= BufSize
    THEN writeUnbuffered(flush(s), data)
    ELSE [s EXCEPT !.buffer = @ \o data]

HashResult(h, bytes) == [hash |-> h, bytes |-> bytes]

\* HashSink::finish: the sink afterwards and the value returned.
HashSink_finish(s) ==
    LET f == flush(s)
        r == finish(f.ht, f.ctx)
    IN  [sink |-> [f EXCEPT !.ctx = r.ctx],
         value |-> HashResult([Hash(f.ht) EXCEPT !.hash = r.hash], f.bytes)]

\* currentHash finalising the sink's own context instead of a copy.
currentHash_NoCopy(s) ==
    LET f == flush(s)
        r == finish(f.ht, f.ctx)
    IN  [sink |-> [f EXCEPT !.ctx = r.ctx],
         value |-> HashResult([Hash(f.ht) EXCEPT !.hash = r.hash], f.bytes)]

\* HashSink::currentHash: finalises the copy ctx2, the sink keeps its context.
currentHash(s) ==
    LET f == flush(s)
        ctx2 == f.ctx
        r == finish(f.ht, ctx2)
    IN  [sink |-> f,
         value |-> HashResult([Hash(f.ht) EXCEPT !.hash = r.hash], f.bytes)]

(***************************************************************************)
(* SpecSink: one HashSink, written to and probed in any order, then        *)
(* finished.                                                               *)
(***************************************************************************)
SinkBytes == {0, 255}

WriteData == UNION {[1 .. n -> SinkBytes] : n \in 0 .. MaxWrite}

InitSink ==
    /\ \E ht \in HashTypes : sink = HashSink(ht)
    /\ written = <<>>
    /\ probe = None
    /\ finished = None
    /\ hash = None /\ rest = <<>> /\ str = None /\ parsed = None /\ compressed = None
    /\ store = None /\ info = None /\ built = None /\ ret = None

Write(data) ==
    /\ finished = None
    /\ Len(written) + Len(data) <= MaxWritten
    /\ sink' = write(sink, data)
    /\ written' = written \o data
    /\ UNCHANGED <<probe, finished, hashVars, infoVars>>

CurrentHash ==
    /\ finished = None
    /\ sink' = currentHash(sink).sink
    /\ probe' = [at |-> Len(written), value |-> currentHash(sink).value]
    /\ UNCHANGED <<written, finished, hashVars, infoVars>>

Finish ==
    /\ finished = None
    /\ sink' = HashSink_finish(sink).sink
    /\ finished' = HashSink_finish(sink).value
    /\ UNCHANGED <<written, probe, hashVars, infoVars>>

NextSink ==
    \/ \E data \in WriteData : Write(data)
    \/ CurrentHash
    \/ Finish

SpecSink == InitSink /\ [][NextSink]_vars

\* C6: every currentHash returns the digest and the count of the bytes written
\* up to it, and finish returns the digest and the count of all bytes written,
\* as one-shot hashing of the same bytes gives, whatever probes were made.
ProbeDoesNotDisturb ==
    /\ probe # None
       => probe.value = HashResult(hashString(sink.ht, SubSeq(written, 1, probe.at)),
                                   probe.at)
    /\ finished # None
       => finished = HashResult(hashString(sink.ht, written), Len(written))

ProbeDoesNotDisturbWitness ==
    /\ finished # None
    /\ probe # None
    /\ 0 < probe.at
    /\ probe.at < Len(written)
    /\ finished.hash # probe.value.hash


(***************************************************************************)
(* Strings: order and helpers.                                             *)
(***************************************************************************)
\* The characters the model uses, in the order of their codes.
CharOrder == <<"+",",","-","/","0","1","2","3","4","5","6","7","8","9",":",";","=",
               "A","B","C","D","E","F","G","H","I","J","K","L","M","N","O","P",
               "Q","R","S","T","U","V","W","X","Y","Z","a","b","c","d","e","f",
               "g","h","i","j","k","l","m","n","o","p","q","r","s","t","u","v",
               "w","x","y","z">>

\* std::string operator<: lexicographic by character code.
StrLess(a, b) ==
    \E k \in 1 .. Len(b) :
        /\ \A m \in 1 .. k - 1 : m <= Len(a) /\ a[m] = b[m]
        /\ \/ k > Len(a)
           \/ Find(CharOrder, a[k]) < Find(CharOrder, b[k])

\* The elements of a finite set of strings in increasing order.
RECURSIVE SortedStrings(_)
SortedStrings(S) ==
    IF S = {} THEN <<>>
    ELSE LET least == CHOOSE x \in S : \A y \in S \ {x} : StrLess(x, y)
         IN  <<least>> \o SortedStrings(S \ {least})

RECURSIVE concatStringsSep(_, _)
concatStringsSep(sep, ss) ==
    IF ss = <<>> THEN <<>>
    ELSE IF Len(ss) = 1 THEN ss[1]
    ELSE ss[1] \o sep \o concatStringsSep(sep, Tail(ss))

\* std::to_string of an unsigned integer.
RECURSIVE to_decimal(_)
to_decimal(n) ==
    IF n < 10 THEN <<base16Chars[n + 1]>>
    ELSE to_decimal(n \div 10) \o <<base16Chars[(n % 10) + 1]>>

(***************************************************************************)
(* Store paths and the store collaborator.  A StorePath is a base name     *)
(* "<hash part>-<name>"; the hash part is modelled as one base-32 digit.   *)
(***************************************************************************)
Names == {<<"a">>, <<"b">>}

StorePaths == [hashPart : 0 .. MaxPathHash, name : Names]

\* StorePath::to_string, StorePath::name, StorePath::operator<
baseName(path) == <<base32Chars[path.hashPart + 1], "-">> \o path.name
pathName(path) == path.name
PathLess(p, q) == StrLess(baseName(p), baseName(q))

\* Two stores that digest a content address differently.
StoreSalts == {0, 1}

Stores == [storeDir : {<<"/", "s">>}, salt : StoreSalts]

printStorePath(st, path) == st.storeDir \o <<"/">> \o baseName(path)

\* Store::printStorePathSet: a std::set of the printed paths, read in its order.
printStorePathSet(st, paths) == SortedStrings({printStorePath(st, q) : q \in paths})

PathCode(path) == (path.hashPart + 1) * 3 + Len(path.name) + Find(CharOrder, path.name[1])

RECURSIVE SumPathCodes(_)
SumPathCodes(S) ==
    IF S = {} THEN 0
    ELSE LET x == CHOOSE y \in S : TRUE IN PathCode(x) + SumPathCodes(S \ {x})

\* What the store digests of a content address: variant, method, hash, references.
CaCode(ca) ==
    IF ca.variant = "TextInfo"
    THEN 1 + ca.hash.hash[0] + SumPathCodes(ca.references)
    ELSE 2 + (IF ca.method = "Flat" THEN 5 ELSE 10) + ca.hash.hash[0]
           + SumPathCodes(ca.references.others)
           + (IF ca.references.self THEN 7 ELSE 0)

\* Store::makeFixedOutputPathFromCA: a deterministic function of the store, the
\* name and the content address, whose result carries the given name.
makeFixedOutputPathFromCA(st, name, ca) ==
    [hashPart |-> ((CaCode(ca) + Find(CharOrder, name[1])) \div (st.salt + 1))
                     % (MaxPathHash + 1),
     name |-> name]

(***************************************************************************)
(* The signature primitive: a token names its key, and verifies against a  *)
(* public key of that name that matches the secret, for the message signed.*)
(***************************************************************************)
SecretKeys == {[name |-> "k1", secret |-> 1], [name |-> "k2", secret |-> 2]}

PublicKeySets == {{}, {[name |-> "k1", public |-> 1]},
                  {[name |-> "k1", public |-> 1], [name |-> "k2", public |-> 2]}}

signDetached(secretKey, msg) ==
    [name |-> secretKey.name, by |-> secretKey.secret, signed |-> msg]

verifyDetached(msg, sig, publicKeys) ==
    \E key \in publicKeys :
        key.name = sig.name /\ key.public = sig.by /\ sig.signed = msg

(***************************************************************************)
(* ValidPathInfo.                                                          *)
(***************************************************************************)
maxSigs == 2147483647

Aborted == [ok |-> FALSE, error |-> "abort", what |-> "assertion failed"]

\* UnkeyedValidPathInfo(narHash) with a path: every other field at its default.
UnkeyedValidPathInfo(path, narHash) ==
    [path |-> path,
     deriver |-> None,
     narHash |-> narHash,
     references |-> {},
     registrationTime |-> 0,
     narSize |-> 0,
     ultimate |-> FALSE,
     sigs |-> {},
     ca |-> None]

\* fingerprint additionally covering the deriver.
fingerprint_WithDeriver(st, v) ==
    IF v.narSize = 0
    THEN Thrown("Error", "cannot calculate fingerprint because its size is not known")
    ELSE [ok |-> TRUE,
          value |-> <<"1", ";">> \o printStorePath(st, v.path) \o <<";">>
                    \o to_string(v.narHash, "Base32", TRUE) \o <<";">>
                    \o to_decimal(v.narSize) \o <<";">>
                    \o concatStringsSep(<<",">>, printStorePathSet(st, v.references))
                    \o (IF v.deriver = None THEN <<>>
                        ELSE <<";">> \o printStorePath(st, v.deriver))]

fingerprint(st, v) ==
    IF v.narSize = 0
    THEN Thrown("Error", "cannot calculate fingerprint because its size is not known")
    ELSE [ok |-> TRUE,
          value |-> <<"1", ";">> \o printStorePath(st, v.path) \o <<";">>
                    \o to_string(v.narHash, "Base32", TRUE) \o <<";">>
                    \o to_decimal(v.narSize) \o <<";">>
                    \o concatStringsSep(<<",">>, printStorePathSet(st, v.references))]

\* sign replacing the signature set instead of inserting into it.
sign_Replaces(st, v, secretKey) ==
    LET fp == fingerprint(st, v)
    IN  IF ~fp.ok THEN [result |-> fp, info |-> v]
        ELSE [result |-> [ok |-> TRUE],
              info |-> [v EXCEPT !.sigs = {signDetached(secretKey, fp.value)}]]

\* ValidPathInfo::sign: the outcome and the object afterwards.
sign(st, v, secretKey) ==
    LET fp == fingerprint(st, v)
    IN  IF ~fp.ok THEN [result |-> fp, info |-> v]
        ELSE [result |-> [ok |-> TRUE],
              info |-> [v EXCEPT !.sigs = @ \cup {signDetached(secretKey, fp.value)}]]

\* contentAddressWithReferences keeping a self-reference among the others.
contentAddressWithReferences_KeepsSelf(v) ==
    IF v.ca = None THEN [ok |-> TRUE, some |-> FALSE]
    ELSE IF v.ca.method = "TextIngestionMethod"
    THEN IF v.path \in v.references THEN Aborted
         ELSE [ok |-> TRUE, some |-> TRUE,
               value |-> [variant |-> "TextInfo", hash |-> v.ca.hash,
                          references |-> v.references]]
    ELSE [ok |-> TRUE, some |-> TRUE,
          value |-> [variant |-> "FixedOutputInfo", method |-> v.ca.method,
                     hash |-> v.ca.hash,
                     references |-> [others |-> v.references,
                                     self |-> v.path \in v.references]]]

\* ValidPathInfo::contentAddressWithReferences: nullopt, a value, or the
\* failed assertion.
contentAddressWithReferences(v) ==
    IF v.ca = None THEN [ok |-> TRUE, some |-> FALSE]
    ELSE IF v.ca.method = "TextIngestionMethod"
    THEN IF v.path \in v.references THEN Aborted
         ELSE [ok |-> TRUE, some |-> TRUE,
               value |-> [variant |-> "TextInfo", hash |-> v.ca.hash,
                          references |-> v.references]]
    ELSE [ok |-> TRUE, some |-> TRUE,
          value |-> [variant |-> "FixedOutputInfo", method |-> v.ca.method,
                     hash |-> v.ca.hash,
                     references |-> [others |-> v.references \ {v.path},
                                     self |-> v.path \in v.references]]]

isContentAddressed(st, v) ==
    LET fullCaOpt == contentAddressWithReferences(v)
    IN  IF ~fullCaOpt.ok THEN fullCaOpt
        ELSE IF ~fullCaOpt.some THEN [ok |-> TRUE, value |-> FALSE, warned |-> FALSE]
        ELSE LET caPath == makeFixedOutputPathFromCA(st, pathName(v.path), fullCaOpt.value)
                 res == (caPath = v.path)
             IN  [ok |-> TRUE, value |-> res, warned |-> ~res]

checkSignature(st, v, publicKeys, sig) ==
    LET fp == fingerprint(st, v)
    IN  IF ~fp.ok THEN fp
        ELSE [ok |-> TRUE, value |-> verifyDetached(fp.value, sig, publicKeys)]

\* checkSignatures computing the fingerprint before looking at the content address.
checkSignatures_FingerprintFirst(st, v, publicKeys) ==
    LET isCA == isContentAddressed(st, v)
        fp == fingerprint(st, v)
    IN  IF ~isCA.ok THEN isCA
        ELSE IF ~fp.ok THEN fp
        ELSE IF isCA.value THEN [ok |-> TRUE, value |-> maxSigs]
        ELSE [ok |-> TRUE,
              value |-> Cardinality({sig \in v.sigs :
                                        verifyDetached(fp.value, sig, publicKeys)})]

\* checkSignatures counting the signatures whose signer is known.
checkSignatures_CountsKnownSigners(st, v, publicKeys) ==
    LET isCA == isContentAddressed(st, v)
    IN  IF ~isCA.ok THEN isCA
        ELSE IF isCA.value THEN [ok |-> TRUE, value |-> maxSigs]
        ELSE IF v.sigs # {} /\ ~fingerprint(st, v).ok
        THEN fingerprint(st, v)
        ELSE [ok |-> TRUE,
              value |-> Cardinality({sig \in v.sigs :
                                        \E key \in publicKeys : key.name = sig.name})]

\* ValidPathInfo::checkSignatures: the loop throws at its first signature when
\* the fingerprint is unavailable.
checkSignatures(st, v, publicKeys) ==
    LET isCA == isContentAddressed(st, v)
    IN  IF ~isCA.ok THEN isCA
        ELSE IF isCA.value THEN [ok |-> TRUE, value |-> maxSigs]
        ELSE IF v.sigs # {} /\ ~fingerprint(st, v).ok
        THEN fingerprint(st, v)
        ELSE [ok |-> TRUE,
              value |-> Cardinality({sig \in v.sigs :
                                        checkSignature(st, v, publicKeys, sig).value})]

\* The keyed constructor dropping the self flag.
NewValidPathInfo_NoSelf(st, name, ca, narHash) ==
    LET path == makeFixedOutputPathFromCA(st, name, ca)
        base == UnkeyedValidPathInfo(path, narHash)
    IN  IF ca.variant = "TextInfo"
        THEN [base EXCEPT !.references = ca.references,
                          !.ca = [method |-> "TextIngestionMethod", hash |-> ca.hash]]
        ELSE [base EXCEPT !.references = ca.references.others,
                          !.ca = [method |-> ca.method, hash |-> ca.hash]]

\* ValidPathInfo::ValidPathInfo(store, name, ca, narHash)
NewValidPathInfo(st, name, ca, narHash) ==
    LET path == makeFixedOutputPathFromCA(st, name, ca)
        base == UnkeyedValidPathInfo(path, narHash)
    IN  IF ca.variant = "TextInfo"
        THEN [base EXCEPT !.references = ca.references,
                          !.ca = [method |-> "TextIngestionMethod", hash |-> ca.hash]]
        ELSE [base EXCEPT !.references =
                              ca.references.others
                                  \cup (IF ca.references.self THEN {path} ELSE {}),
                          !.ca = [method |-> ca.method, hash |-> ca.hash]]


(***************************************************************************)
(* Spec: a store and one ValidPathInfo, created either from an already     *)
(* keyed record whose fields the caller filled in, or by the constructor   *)
(* from a content address, then signed any number of times and queried.    *)
(* The queries are const: one query after the creation and the signing     *)
(* shows what any later query of that object returns.                      *)
(***************************************************************************)
NarHashes == {InputHash(htSHA256, 1), InputHash(htSHA256, 2)}
CaHashes == {InputHash(htSHA256, 1), InputHash(htSHA1, 2)}
NarSizes == {0, 1203}
RefPaths == {q \in StorePaths : q.name = <<"a">>}
FileIngestionMethods == {"Flat", "Recursive"}

ContentAddressesWithReferences ==
    [variant : {"TextInfo"}, hash : CaHashes, references : SUBSET RefPaths]
    \cup [variant : {"FixedOutputInfo"}, method : FileIngestionMethods, hash : CaHashes,
          references : [others : SUBSET RefPaths, self : BOOLEAN]]

\* A signature made with k1 over another message.
StaleSig == signDetached([name |-> "k1", secret |-> 1], <<"1", ";">>)

Init ==
    /\ store \in Stores
    /\ info = None
    /\ built = None
    /\ ret = [op |-> "none"]
    /\ hash = None /\ rest = <<>> /\ str = None /\ parsed = None /\ compressed = None
    /\ sink = None /\ written = <<>> /\ probe = None /\ finished = None

\* ValidPathInfo(path, UnkeyedValidPathInfo): the fields are what the caller put
\* into the record; filled says whether the optional metadata was provided.
AdoptRecord(path, narHash, refs, narSize, filled, ca) ==
    /\ info = None
    /\ info' = [path |-> path,
                deriver |-> IF filled
                            THEN [hashPart |-> 0, name |-> <<"b">>]
                            ELSE None,
                narHash |-> narHash,
                references |-> refs,
                registrationTime |-> IF filled THEN 1 ELSE 0,
                narSize |-> narSize,
                ultimate |-> filled,
                sigs |-> IF filled THEN {StaleSig} ELSE {},
                ca |-> ca]
    /\ ret' = [op |-> "adopt"]
    /\ UNCHANGED <<store, built, hashVars, sinkVars>>

Construct(name, ca, narHash) ==
    /\ info = None
    /\ info' = NewValidPathInfo(store, name, ca, narHash)
    /\ built' = [name |-> name, ca |-> ca]
    /\ ret' = [op |-> "construct"]
    /\ UNCHANGED <<store, hashVars, sinkVars>>

Sign(secretKey) ==
    /\ info # None
    /\ ret.op \in {"adopt", "construct", "sign"}
    /\ LET r == sign(store, info, secretKey)
       IN  /\ info' = r.info
           /\ ret' = [op |-> "sign", key |-> secretKey, result |-> r.result]
    /\ UNCHANGED <<store, built, hashVars, sinkVars>>

Fingerprint ==
    /\ info # None
    /\ ret.op \in {"adopt", "construct", "sign"}
    /\ ret' = [op |-> "fingerprint", result |-> fingerprint(store, info)]
    /\ UNCHANGED <<store, info, built, hashVars, sinkVars>>

ContentAddressWithReferences ==
    /\ info # None
    /\ ret.op \in {"adopt", "construct", "sign"}
    /\ ret' = [op |-> "contentAddressWithReferences",
               result |-> contentAddressWithReferences(info)]
    /\ UNCHANGED <<store, info, built, hashVars, sinkVars>>

IsContentAddressed ==
    /\ info # None
    /\ ret.op \in {"adopt", "construct", "sign"}
    /\ ret' = [op |-> "isContentAddressed", result |-> isContentAddressed(store, info)]
    /\ UNCHANGED <<store, info, built, hashVars, sinkVars>>

CheckSignatures(publicKeys) ==
    /\ info # None
    /\ ret.op \in {"adopt", "construct", "sign"}
    /\ ret' = [op |-> "checkSignatures", publicKeys |-> publicKeys,
               result |-> checkSignatures(store, info, publicKeys)]
    /\ UNCHANGED <<store, info, built, hashVars, sinkVars>>

Next ==
    \/ \E path \in StorePaths, narHash \in NarHashes, refs \in SUBSET RefPaths,
          narSize \in NarSizes, filled \in BOOLEAN,
          ca \in {None} \cup [method : {"TextIngestionMethod", "Recursive"},
                              hash : {InputHash(htSHA256, 1)}] :
          AdoptRecord(path, narHash, refs, narSize, filled, ca)
    \/ \E name \in Names, ca \in ContentAddressesWithReferences, narHash \in NarHashes :
          Construct(name, ca, narHash)
    \/ \E secretKey \in SecretKeys : Sign(secretKey)
    \/ Fingerprint
    \/ ContentAddressWithReferences
    \/ IsContentAddressed
    \/ \E publicKeys \in PublicKeySets : CheckSignatures(publicKeys)

Spec == Init /\ [][Next]_vars


(***************************************************************************)
(* Properties of ValidPathInfo.                                            *)
(***************************************************************************)
\* The references a content address lists by path, and all it stands for once
\* the self flag is resolved to the path.
ListedRefs(ca) ==
    IF ca.variant = "TextInfo" THEN ca.references ELSE ca.references.others
ResolvedRefs(ca, path) ==
    IF ca.variant = "TextInfo" THEN ca.references
    ELSE ca.references.others \cup (IF ca.references.self THEN {path} ELSE {})

\* A TextInfo whose references list the path computed for it breaks TextInfo's
\* invariant; contentAddressWithReferences stops at its assertion on it.
TextListsOwnPath ==
    built.ca.variant = "TextInfo" /\ info.path \in built.ca.references

\* C2 as stated: the object constructed from (store, name, ca, narHash) gives
\* back exactly ca from contentAddressWithReferences, for any reference set and
\* self flag (of a content address that keeps TextInfo's invariant).
CAReconstructionAsStated ==
    (built # None /\ ret.op = "contentAddressWithReferences" /\ ~TextListsOwnPath)
    => ret.result = [ok |-> TRUE, some |-> TRUE, value |-> built.ca]

\* C2, amended: when the path computed for the object is not in a TextInfo's
\* references, contentAddressWithReferences returns a value of the same variant,
\* method and hash that stands for the same reference set (others, plus the
\* path when self); it is equal to ca itself exactly when the computed path is
\* not listed in ca's others.
CAReconstructionRoundTrip ==
    (/\ built # None
     /\ ret.op = "contentAddressWithReferences"
     /\ ~TextListsOwnPath)
    => /\ ret.result.ok
       /\ ret.result.some
       /\ ret.result.value.variant = built.ca.variant
       /\ ret.result.value.hash = built.ca.hash
       /\ built.ca.variant = "FixedOutputInfo"
             => ret.result.value.method = built.ca.method
       /\ ResolvedRefs(ret.result.value, info.path) = ResolvedRefs(built.ca, info.path)
       /\ (ret.result.value = built.ca) <=> (info.path \notin ListedRefs(built.ca))

CAReconstructionRoundTripWitness ==
    /\ built # None
    /\ built.ca.variant = "FixedOutputInfo"
    /\ built.ca.references.self
    /\ built.ca.references.others # {}
    /\ info.path \notin built.ca.references.others
    /\ ret.op = "contentAddressWithReferences"
    /\ ret.result.ok
    /\ ret.result.value = built.ca

\* C3: when isContentAddressed holds of the object, checkSignatures returns
\* maxSigs for every public-key set and every content of sigs, also when
\* narSize is 0 and no fingerprint can be computed.
SignatureTrustBypass ==
    (/\ ret.op = "checkSignatures"
     /\ isContentAddressed(store, info).ok
     /\ isContentAddressed(store, info).value)
    => ret.result = [ok |-> TRUE, value |-> maxSigs]

SignatureTrustBypassWitness ==
    /\ ret.op = "checkSignatures"
    /\ isContentAddressed(store, info).ok
    /\ isContentAddressed(store, info).value
    /\ info.narSize = 0
    /\ info.sigs # {}
    /\ ret.publicKeys = {}
    /\ ret.result = [ok |-> TRUE, value |-> maxSigs]

\* The signatures of the object that verify against its fingerprint.
GoodSigs(publicKeys) ==
    {sig \in info.sigs :
        verifyDetached(fingerprint(store, info).value, sig, publicKeys)}

\* C4 as stated: on every object that is not content-addressed checkSignatures
\* returns the number of signatures that verify.
SignatureCountingAsStated ==
    (/\ ret.op = "checkSignatures"
     /\ isContentAddressed(store, info).ok
     /\ ~isContentAddressed(store, info).value)
    => /\ ret.result.ok
       /\ ret.result.value =
             Cardinality({sig \in info.sigs :
                             /\ fingerprint(store, info).ok
                             /\ verifyDetached(fingerprint(store, info).value, sig,
                                               ret.publicKeys)})

\* C4, amended: on an object that is not content-addressed, with narSize > 0 or
\* with no signatures, checkSignatures returns the number of signatures that
\* verify against the fingerprint, a signature of an unknown signer counting as
\* not verifying; with narSize = 0 and a signature to check it fails as
\* fingerprint does.
SignatureCounting ==
    (/\ ret.op = "checkSignatures"
     /\ isContentAddressed(store, info).ok
     /\ ~isContentAddressed(store, info).value)
    => IF info.sigs = {}
       THEN ret.result = [ok |-> TRUE, value |-> 0]
       ELSE IF info.narSize > 0
       THEN ret.result = [ok |-> TRUE, value |-> Cardinality(GoodSigs(ret.publicKeys))]
       ELSE /\ ~ret.result.ok
            /\ ret.result.error = "Error"
            /\ ret.result = fingerprint(store, info)

SignatureCountingWitness ==
    /\ ret.op = "checkSignatures"
    /\ isContentAddressed(store, info).ok
    /\ ~isContentAddressed(store, info).value
    /\ Cardinality(info.sigs) = 3
    /\ \E sig \in info.sigs : \A key \in ret.publicKeys : key.name # sig.name
    /\ ret.result = [ok |-> TRUE, value |-> 1]


\* The record with the same path, narHash, narSize and references and every
\* other field at its default.
Stripped(v) ==
    [UnkeyedValidPathInfo(v.path, v.narHash) EXCEPT
        !.references = v.references, !.narSize = v.narSize]

\* The n-th of the fields of s that the separator sep delimits.
FieldOf(s, sep, n) ==
    LET seps == {k \in 1 .. Len(s) : s[k] = sep}
        nth(m) == IF m = 0 THEN 0
                  ELSE IF m > Cardinality(seps) THEN Len(s) + 1
                  ELSE CHOOSE k \in seps : Cardinality({x \in seps : x < k}) = m - 1
    IN  SubSeq(s, nth(n - 1) + 1, nth(n) - 1)

RECURSIVE DecimalValue(_)
DecimalValue(d) ==
    IF d = <<>> THEN 0
    ELSE 10 * DecimalValue(SubSeq(d, 1, Len(d) - 1))
         + Find(<<"0","1","2","3","4","5","6","7","8","9">>, d[Len(d)])

\* The printed paths of a set, in the order of the set of StorePaths.
RECURSIVE PrintedInPathOrder(_, _)
PrintedInPathOrder(st, paths) ==
    IF paths = {} THEN <<>>
    ELSE LET least == CHOOSE q \in paths : \A r \in paths \ {q} : PathLess(q, r)
         IN  <<printStorePath(st, least)>> \o PrintedInPathOrder(st, paths \ {least})

\* C5: with narSize > 0 the fingerprint is that of the record that agrees on
\* path, narHash, narSize and references and has no deriver, registration time,
\* ultimate flag, signatures or content address; it consists of five fields
\* separated by ";": "1", the printed path, narHash in base 32 with its type
\* prefix, narSize in decimal, and the printed references joined by "," in the
\* reference set's order.
FingerprintDeterminism ==
    (ret.op = "fingerprint" /\ info.narSize > 0)
    => /\ ret.result.ok
       /\ ret.result = fingerprint(store, Stripped(info))
       /\ LET fp == ret.result.value
              hashField == FieldOf(fp, ";", 3)
              sizeField == FieldOf(fp, ";", 4)
          IN  /\ Cardinality({k \in 1 .. Len(fp) : fp[k] = ";"}) = 4
              /\ FieldOf(fp, ";", 1) = <<"1">>
              /\ FieldOf(fp, ";", 2) = printStorePath(store, info.path)
              /\ FieldOf(hashField, ":", 1) = printHashType(info.narHash.type)
              /\ Len(FieldOf(hashField, ":", 2)) = base32Len(info.narHash)
              /\ parseAny(hashField, [some |-> FALSE]) = [ok |-> TRUE, hash |-> info.narHash]
              /\ sizeField[1] # "0"
              /\ DecimalValue(sizeField) = info.narSize
              /\ FieldOf(fp, ";", 5) =
                    concatStringsSep(<<",">>, PrintedInPathOrder(store, info.references))

FingerprintDeterminismWitness ==
    /\ ret.op = "fingerprint"
    /\ ret.result.ok
    /\ Cardinality(info.references) >= 2
    /\ info.deriver # None
    /\ info.ultimate
    /\ info.registrationTime # 0
    /\ info.sigs # {}
    /\ info.ca # None

\* C9: a call on an existing object changes no field but sigs and only adds to
\* sigs, so the fingerprint stays what it was; only sign adds, and what it adds
\* is the one token signDetached gives for the fingerprint; with narSize = 0
\* sign fails as fingerprint does and sigs stays as it was.
SignOnlyGrowsSigs ==
    [][info # None =>
        /\ [info' EXCEPT !.sigs = info.sigs] = info
        /\ info.sigs \subseteq info'.sigs
        /\ fingerprint(store', info') = fingerprint(store, info)
        /\ ret'.op # "sign" => info'.sigs = info.sigs
        /\ (ret'.op = "sign" /\ info.narSize > 0) =>
              /\ ret'.result = [ok |-> TRUE]
              /\ info'.sigs = info.sigs
                    \cup {signDetached(ret'.key, fingerprint(store, info).value)}
        /\ (ret'.op = "sign" /\ info.narSize = 0) =>
              /\ ~ret'.result.ok
              /\ ret'.result = fingerprint(store, info)
              /\ info'.sigs = info.sigs]_vars

SignOnlyGrowsSigsWitness ==
    /\ ret.op = "sign"
    /\ ret.result.ok
    /\ Cardinality(info.sigs) = 3
    /\ StaleSig \in info.sigs

\* C10 as stated: every object the constructor builds from a content address
\* (that keeps TextInfo's invariant) is content-addressed, and checkSignatures
\* returns maxSigs for it.
KeyedSelfVerifyingAsStated ==
    (built # None /\ ~TextListsOwnPath)
    => /\ ret.op = "isContentAddressed"
          => ret.result = [ok |-> TRUE, value |-> TRUE, warned |-> FALSE]
       /\ ret.op = "checkSignatures"
          => ret.result = [ok |-> TRUE, value |-> maxSigs]

\* C10, amended: when the content address does not list the path the store
\* computes for it (in a TextInfo's references or a FixedOutputInfo's others),
\* the object built from it is content-addressed, no assertion fails, and
\* checkSignatures returns maxSigs.
KeyedSelfVerifying ==
    (built # None /\ info.path \notin ListedRefs(built.ca))
    => /\ ret.op = "isContentAddressed"
          => ret.result = [ok |-> TRUE, value |-> TRUE, warned |-> FALSE]
       /\ ret.op = "checkSignatures"
          => ret.result = [ok |-> TRUE, value |-> maxSigs]
       /\ ret.op = "contentAddressWithReferences" => ret.result.ok

KeyedSelfVerifyingWitness ==
    /\ built # None
    /\ built.ca.variant = "FixedOutputInfo"
    /\ built.ca.references.self
    /\ built.ca.references.others # {}
    /\ info.path \notin built.ca.references.others
    /\ ret.op = "checkSignatures"
    /\ ret.result = [ok |-> TRUE, value |-> maxSigs]

====
